---- MODULE Spec2Model ----
(***************************************************************************)
(* Model of loader.LoadEdges (src/loader/loader.go): the three-stage       *)
(* ingestion pipeline readLines -> parseStream -> handleNQuads, the shared *)
(* counters, the error register and the coordinator's shutdown sequence.   *)
(***************************************************************************)
EXTENDS Integers, Sequences, FiniteSets, Bags, TLC

\* ------------------------------------------------------------- bounds
MaxLines == 3
MaxParse == 2
MaxMut == 2
MaxWorkers == 3
MaxInstances == 2
\* the number of transient failures of a triple whose edge construction
\* fails transiently before it succeeds
MaxTmp == 1
\* Longest input of the runs that fill the window and the raw-line queue at
\* the same time (SpecLong).
MaxLinesLong == 4
\* make(chan string, 10000), make(chan rdf.NQuad, 10000) and the window of
\* 1000 lines, scaled down so that full queues and a full window happen.
InputCap == 1
CnqCap == 1
WindowCap == 2

\* ------------------------------------------------------------- values
NoLine == [kind |-> "none"]
NoErr == "nil"
ErrParse == "ErrParse"
ErrEdge == "ErrEdge"
\* posting.E_TMP_ERROR
E_TMP_ERROR == "E_TMP_ERROR"

\* A line of the input. kind "blank" is a line that is empty after
\* strings.Trim(line, " \t"); kind "bad" is a line rdf.Parse rejects;
\* kind "nq" parses. For an nq, fate and tmp say how nq.ToEdge() behaves:
\* it returns E_TMP_ERROR tmp times and then succeeds (fate "ok") or
\* returns a non-transient error (fate "perm"); with fate "stuck" it returns
\* E_TMP_ERROR on every call.
Nq(s, p, f, t) == [kind |-> "nq", subj |-> s, pred |-> p, fate |-> f, tmp |-> t]
Lines ==
    { [kind |-> "blank"], [kind |-> "bad"],
      Nq("a", "p1", "ok", 0), Nq("b", "p2", "ok", MaxTmp), Nq("a", "p2", "perm", 0) }
\* The lines of the runs in which an edge construction fails forever.
LinesStuck ==
    { [kind |-> "bad"],
      Nq("a", "p1", "ok", 0), Nq("a", "p2", "perm", 0), Nq("b", "p1", "stuck", 0) }

\* The lines of the runs over longer inputs and of the runs with the metrics
\* loop: one malformed line and two triples with different predicates.
LinesPlain ==
    { [kind |-> "bad"], Nq("a", "p1", "ok", 0), Nq("b", "p2", "ok", 0) }

RECURSIVE SeqsUpTo(_, _)
SeqsUpTo(S, n) ==
    IF n = 0 THEN { <<>> }
    ELSE LET prev == SeqsUpTo(S, n - 1)
         IN  prev \cup { Append(s, x) : s \in { t \in prev : Len(t) = n - 1 }, x \in S }

BagOfSeq(s) ==
    [x \in { s[i] : i \in DOMAIN s } |-> Cardinality({ i \in DOMAIN s : s[i] = x })]

VARIABLES
    stream, numr, nrt, instanceIdx, numInstances,
    pos, buf, strBuf, rk, ri, rpc,
    input, inputClosed,
    ppc, pline,
    cnq, cnqClosed,
    mpc, mnq, tries,
    ctr, err,
    store, leases,
    cpc, ret,
    sent, blanks, errLog, cnqCloses,
    tpc, prev, parsedSeen, ignoredSeen

config == <<stream, numr, nrt, instanceIdx, numInstances>>
reader == <<pos, buf, strBuf, rk, ri, rpc>>
parsers == <<ppc, pline>>
mutators == <<mpc, mnq, tries>>
coord == <<cpc, ret, cnqCloses>>
\* printCounters: its position in the loop body, prev (which is also the
\* processed value of the iteration, line 92), and the values it loaded
\* into parsed and ignored.
metrics == <<tpc, prev, parsedSeen, ignoredSeen>>
vars == <<config, reader, input, inputClosed, parsers, cnq, cnqClosed,
          mutators, ctr, err, store, leases, coord, sent, blanks, errLog, metrics>>

Parsers == 1..numr
Mutators == 1..nrt

\* ------------------------------------------------------------- helpers
\* strings.Trim(line, " \t") followed by len(line) == 0
IsBlank(line) == line.kind = "blank"

\* rdf.Parse(line): the triple, or an error
ParseFails(line) == line.kind = "bad"
Parse(line) == [subj |-> line.subj, pred |-> line.pred, fate |-> line.fate, tmp |-> line.tmp]

\* farm.Fingerprint64([]byte(predicate)): a fixed 64-bit value per predicate
Fingerprint64(p) ==
    CASE p = "p1" -> 1000003
      [] p = "p2" -> 2147483646
      [] OTHER -> 0

\* the modulo rule of handleNQuads
OwnsBad(p, n, idx) == Fingerprint64(p) % n <= idx
Owns(p, n, idx) == Fingerprint64(p) % n = idx

\* edge, err := nq.ToEdge(), called after t transient failures: the error
\* it returns, NoErr on success
ToEdge(nq, t) ==
    IF nq.fate = "stuck" \/ t < nq.tmp THEN E_TMP_ERROR
    ELSE IF nq.fate = "perm" THEN ErrEdge
    ELSE NoErr

\* if err == posting.E_TMP_ERROR: the retry loop's test; r is the error
\* register, which the loop does not read
IsTmpErrorBad(e, r) == FALSE
IsTmpErrorStop(e, r) == e = E_TMP_ERROR /\ r = NoErr
IsTmpError(e, r) == e = E_TMP_ERROR

\* posting.Key(edge.Entity, edge.Attribute)
KeyBad(nq) == <<nq.pred, nq.subj>>
Key(nq) == <<nq.subj, nq.pred>>

\* state.SetError: the register keeps the first error
SetErrorBad(old, e) == e
SetError(old, e) == IF old = NoErr THEN e ELSE old

Inc(c, f) == [c EXCEPT ![f] = @ + 1]

\* The counters are uint64 and their subtraction wraps around. The modulus is
\* scaled to 2^30 to stay within the checker's integers; every counter of
\* the model is far below it.
UintModulus == 1073741824
Sub64(a, b) == (a - b) % UintModulus
\* pending := parsed - ignored - processed
Pending(parsed, ignored, processed) == Sub64(Sub64(parsed, ignored), processed)

\* ------------------------------------------------------------- Init
InitOf(L, n) ==
    /\ stream \in SeqsUpTo(L, n)
    /\ numr \in 1..MaxParse
    /\ nrt \in 1..MaxMut
    /\ numr + nrt <= MaxWorkers
    /\ numInstances \in 1..MaxInstances
    /\ instanceIdx \in 0..(numInstances - 1)
    /\ pos = 1 /\ buf = <<>> /\ strBuf = NoLine /\ rk = 0 /\ ri = 1 /\ rpc = "fill"
    /\ input = <<>> /\ inputClosed = FALSE
    /\ ppc = [p \in 1..numr |-> "recv"]
    /\ pline = [p \in 1..numr |-> NoLine]
    /\ cnq = <<>> /\ cnqClosed = FALSE
    /\ mpc = [m \in 1..nrt |-> "recv"]
    /\ mnq = [m \in 1..nrt |-> NoLine]
    /\ tries = [m \in 1..nrt |-> 0]
    /\ ctr = [read |-> 0, parsed |-> 0, processed |-> 0, ignored |-> 0]
    /\ err = NoErr
    /\ store = EmptyBag /\ leases = 0
    /\ cpc = "waitParse" /\ ret = [processed |-> 0, err |-> NoErr]
    /\ cnqCloses = 0
    /\ sent = EmptyBag /\ blanks = 0 /\ errLog = <<>>
    /\ tpc = "tick" /\ prev = 0 /\ parsedSeen = 0 /\ ignoredSeen = 0

InitWith(L) == InitOf(L, MaxLines)
Init == InitWith(Lines)
InitStuck == InitWith(LinesStuck)
InitLong == InitOf(LinesPlain, MaxLinesLong)
InitMetrics == InitOf(LinesPlain, MaxLines)

\* ------------------------------------------------------------- readLines
\* err = readLine(bufReader, &strBuf) of the second loop, and what follows it
\* up to the next channel operation: on io.EOF the drain loop, otherwise
\* k := rand.Intn(len(buf)) and the send of buf[k]. (p, b) is the reader's
\* position in the stream and its window when the call is made.
AfterReadLine(p, b) ==
    IF p > Len(stream)
    THEN /\ rpc' = "drain"
         /\ ri' = 1
         /\ pos' = p
         /\ UNCHANGED <<strBuf, rk>>
    ELSE /\ Len(b) > 0
         /\ strBuf' = stream[p]
         /\ pos' = p + 1
         /\ \E k \in 1..Len(b) : rk' = k
         /\ rpc' = "send"
         /\ ri' = ri

RL_FillUncounted ==
    /\ rpc = "fill"
    /\ IF Len(buf) < WindowCap /\ pos <= Len(stream)
       THEN /\ buf' = Append(buf, stream[pos])
            /\ pos' = pos + 1
            /\ UNCHANGED <<rpc, strBuf, rk, ri>>
       ELSE /\ AfterReadLine(pos, buf)
            /\ UNCHANGED buf
    /\ UNCHANGED <<metrics, config, input, inputClosed, parsers, cnq, cnqClosed,
                   mutators, ctr, err, store, leases, coord, sent, blanks, errLog>>

RL_FillBad ==
    /\ rpc = "fill"
    /\ IF pos <= Len(stream)
       THEN /\ buf' = Append(buf, stream[pos])
            /\ pos' = pos + 1
            /\ ctr' = Inc(ctr, "read")
            /\ UNCHANGED <<rpc, strBuf, rk, ri>>
       ELSE /\ AfterReadLine(pos, buf)
            /\ UNCHANGED <<buf, ctr>>
    /\ UNCHANGED <<metrics, config, input, inputClosed, parsers, cnq, cnqClosed,
                   mutators, err, store, leases, coord, sent, blanks, errLog>>

\* for i := 0; i < 1000; i++ { readLine; buf = append(buf, ...); read++ }
RL_Fill ==
    /\ rpc = "fill"
    /\ IF Len(buf) < WindowCap /\ pos <= Len(stream)
       THEN /\ buf' = Append(buf, stream[pos])
            /\ pos' = pos + 1
            /\ ctr' = Inc(ctr, "read")
            /\ UNCHANGED <<rpc, strBuf, rk, ri>>
       ELSE /\ AfterReadLine(pos, buf)
            /\ UNCHANGED <<buf, ctr>>
    /\ UNCHANGED <<metrics, config, input, inputClosed, parsers, cnq, cnqClosed,
                   mutators, err, store, leases, coord, sent, blanks, errLog>>

RL_SendBad ==
    /\ rpc = "send"
    /\ Len(input) < InputCap
    /\ input' = Append(input, strBuf)
    /\ sent' = sent (+) SetToBag({strBuf})
    /\ rpc' = "store"
    /\ UNCHANGED <<metrics, config, pos, buf, strBuf, rk, ri, inputClosed, parsers, cnq, cnqClosed,
                   mutators, ctr, err, store, leases, coord, blanks, errLog>>

\* s.input <- buf[k]
RL_Send ==
    /\ rpc = "send"
    /\ Len(input) < InputCap
    /\ input' = Append(input, buf[rk])
    /\ sent' = sent (+) SetToBag({buf[rk]})
    /\ rpc' = "store"
    /\ UNCHANGED <<metrics, config, pos, buf, strBuf, rk, ri, inputClosed, parsers, cnq, cnqClosed,
                   mutators, ctr, err, store, leases, coord, blanks, errLog>>

RL_StoreBad ==
    /\ rpc = "store"
    /\ buf' = [buf EXCEPT ![rk] = strBuf]
    /\ AfterReadLine(pos, buf')
    /\ UNCHANGED <<metrics, config, input, inputClosed, parsers, cnq, cnqClosed,
                   mutators, ctr, err, store, leases, coord, sent, blanks, errLog>>

\* buf[k] = strBuf.String(); atomic.AddUint64(&s.ctr.read, 1); next readLine
RL_Store ==
    /\ rpc = "store"
    /\ buf' = [buf EXCEPT ![rk] = strBuf]
    /\ ctr' = Inc(ctr, "read")
    /\ AfterReadLine(pos, buf')
    /\ UNCHANGED <<metrics, config, input, inputClosed, parsers, cnq, cnqClosed,
                   mutators, err, store, leases, coord, sent, blanks, errLog>>

\* for i := 0; i < len(buf); i++ { s.input <- buf[i] }
RL_Drain ==
    /\ rpc = "drain"
    /\ ri <= Len(buf)
    /\ Len(input) < InputCap
    /\ input' = Append(input, buf[ri])
    /\ sent' = sent (+) SetToBag({buf[ri]})
    /\ ri' = ri + 1
    /\ UNCHANGED <<metrics, config, pos, buf, strBuf, rk, rpc, inputClosed, parsers, cnq, cnqClosed,
                   mutators, ctr, err, store, leases, coord, blanks, errLog>>

RL_CloseEarly ==
    /\ rpc = "drain"
    /\ ~inputClosed
    /\ inputClosed' = TRUE
    /\ UNCHANGED <<metrics, config, reader, input, parsers, cnq, cnqClosed,
                   mutators, ctr, err, store, leases, coord, sent, blanks, errLog>>

RL_CloseBad ==
    /\ rpc = "drain"
    /\ ri > Len(buf)
    /\ rpc' = "done"
    /\ UNCHANGED <<metrics, config, pos, buf, strBuf, rk, ri, input, inputClosed, parsers, cnq,
                   cnqClosed, mutators, ctr, err, store, leases, coord, sent, blanks, errLog>>

\* close(s.input)
RL_Close ==
    /\ rpc = "drain"
    /\ ri > Len(buf)
    /\ inputClosed' = TRUE
    /\ rpc' = "done"
    /\ UNCHANGED <<metrics, config, pos, buf, strBuf, rk, ri, input, parsers, cnq, cnqClosed,
                   mutators, ctr, err, store, leases, coord, sent, blanks, errLog>>

readLines == RL_Fill \/ RL_Send \/ RL_Store \/ RL_Drain \/ RL_Close

\* ------------------------------------------------------------- parseStream
\* for line := range s.input
PS_Recv(p) ==
    /\ p \in Parsers
    /\ ppc[p] = "recv"
    /\ IF Len(input) > 0
       THEN /\ pline' = [pline EXCEPT ![p] = Head(input)]
            /\ input' = Tail(input)
            /\ ppc' = [ppc EXCEPT ![p] = "check"]
       ELSE /\ inputClosed
            /\ ppc' = [ppc EXCEPT ![p] = "done"]
            /\ UNCHANGED <<pline, input>>
    /\ UNCHANGED <<metrics, config, reader, inputClosed, cnq, cnqClosed,
                   mutators, ctr, err, store, leases, coord, sent, blanks, errLog>>

PS_CheckBad(p) ==
    /\ p \in Parsers
    /\ ppc[p] = "check"
    /\ IF err # NoErr
       THEN /\ ppc' = [ppc EXCEPT ![p] = "done"]
            /\ pline' = [pline EXCEPT ![p] = NoLine]
       ELSE IF IsBlank(pline[p]) \/ ParseFails(pline[p])
       THEN /\ ppc' = [ppc EXCEPT ![p] = "fail"]
            /\ pline' = pline
       ELSE /\ ppc' = [ppc EXCEPT ![p] = "send"]
            /\ pline' = pline
    /\ UNCHANGED <<metrics, config, reader, input, inputClosed, cnq, cnqClosed,
                   mutators, ctr, err, store, leases, coord, sent, blanks, errLog>>

\* if s.Error() != nil { return }; trim; empty line: continue; rdf.Parse(line)
PS_Check(p) ==
    /\ p \in Parsers
    /\ ppc[p] = "check"
    /\ IF err # NoErr
       THEN /\ ppc' = [ppc EXCEPT ![p] = "done"]
            /\ pline' = [pline EXCEPT ![p] = NoLine]
            /\ blanks' = blanks
       ELSE IF IsBlank(pline[p])
       THEN /\ ppc' = [ppc EXCEPT ![p] = "recv"]
            /\ pline' = [pline EXCEPT ![p] = NoLine]
            /\ blanks' = blanks + 1
       ELSE IF ParseFails(pline[p])
       THEN /\ ppc' = [ppc EXCEPT ![p] = "fail"]
            /\ UNCHANGED <<pline, blanks>>
       ELSE /\ ppc' = [ppc EXCEPT ![p] = "send"]
            /\ UNCHANGED <<pline, blanks>>
    /\ UNCHANGED <<metrics, config, reader, input, inputClosed, cnq, cnqClosed,
                   mutators, ctr, err, store, leases, coord, sent, errLog>>

PS_FailBad(p) ==
    /\ p \in Parsers
    /\ ppc[p] = "fail"
    /\ ppc' = [ppc EXCEPT ![p] = "done"]
    /\ pline' = [pline EXCEPT ![p] = NoLine]
    /\ UNCHANGED <<metrics, config, reader, input, inputClosed, cnq, cnqClosed,
                   mutators, ctr, err, store, leases, coord, sent, blanks, errLog>>

\* if err != nil { s.SetError(err); return }
PS_Fail(p) ==
    /\ p \in Parsers
    /\ ppc[p] = "fail"
    /\ err' = SetError(err, ErrParse)
    /\ errLog' = Append(errLog, ErrParse)
    /\ ppc' = [ppc EXCEPT ![p] = "done"]
    /\ pline' = [pline EXCEPT ![p] = NoLine]
    /\ UNCHANGED <<metrics, config, reader, input, inputClosed, cnq, cnqClosed,
                   mutators, ctr, store, leases, coord, sent, blanks>>

\* s.cnq <- nq
PS_Send(p) ==
    /\ p \in Parsers
    /\ ppc[p] = "send"
    /\ Len(cnq) < CnqCap
    /\ cnq' = Append(cnq, Parse(pline[p]))
    /\ pline' = [pline EXCEPT ![p] = NoLine]
    /\ ppc' = [ppc EXCEPT ![p] = "inc"]
    /\ UNCHANGED <<metrics, config, reader, input, inputClosed, cnqClosed,
                   mutators, ctr, err, store, leases, coord, sent, blanks, errLog>>

\* atomic.AddUint64(&s.ctr.parsed, 1)
PS_Inc(p) ==
    /\ p \in Parsers
    /\ ppc[p] = "inc"
    /\ ctr' = Inc(ctr, "parsed")
    /\ ppc' = [ppc EXCEPT ![p] = "recv"]
    /\ UNCHANGED <<metrics, config, reader, input, inputClosed, pline, cnq, cnqClosed,
                   mutators, err, store, leases, coord, sent, blanks, errLog>>

parseStream(p) == PS_Recv(p) \/ PS_Check(p) \/ PS_Fail(p) \/ PS_Send(p) \/ PS_Inc(p)

\* ------------------------------------------------------------- handleNQuads
\* for nq := range s.cnq
HN_Recv(m) ==
    /\ m \in Mutators
    /\ mpc[m] = "recv"
    /\ IF Len(cnq) > 0
       THEN /\ mnq' = [mnq EXCEPT ![m] = Head(cnq)]
            /\ cnq' = Tail(cnq)
            /\ mpc' = [mpc EXCEPT ![m] = "check"]
       ELSE /\ cnqClosed
            /\ mpc' = [mpc EXCEPT ![m] = "done"]
            /\ UNCHANGED <<mnq, cnq>>
    /\ UNCHANGED <<metrics, config, reader, input, inputClosed, parsers, cnqClosed, tries,
                   ctr, err, store, leases, coord, sent, blanks, errLog>>

HN_CheckBad(m) ==
    /\ m \in Mutators
    /\ mpc[m] = "check"
    /\ IF ~Owns(mnq[m].pred, numInstances, instanceIdx)
       THEN /\ mpc' = [mpc EXCEPT ![m] = "ignore"]
            /\ mnq' = mnq
       ELSE /\ mpc' = [mpc EXCEPT ![m] = "toEdge"]
            /\ mnq' = mnq
    /\ UNCHANGED <<metrics, config, reader, input, inputClosed, parsers, cnq, cnqClosed, tries,
                   ctr, err, store, leases, coord, sent, blanks, errLog>>

\* if s.Error() != nil { return }; the modulo rule
HN_Check(m) ==
    /\ m \in Mutators
    /\ mpc[m] = "check"
    /\ IF err # NoErr
       THEN /\ mpc' = [mpc EXCEPT ![m] = "done"]
            /\ mnq' = [mnq EXCEPT ![m] = NoLine]
       ELSE IF ~Owns(mnq[m].pred, numInstances, instanceIdx)
       THEN /\ mpc' = [mpc EXCEPT ![m] = "ignore"]
            /\ mnq' = mnq
       ELSE /\ mpc' = [mpc EXCEPT ![m] = "toEdge"]
            /\ mnq' = mnq
    /\ UNCHANGED <<metrics, config, reader, input, inputClosed, parsers, cnq, cnqClosed, tries,
                   ctr, err, store, leases, coord, sent, blanks, errLog>>

HN_IgnoreBad(m) ==
    /\ m \in Mutators
    /\ mpc[m] = "ignore"
    /\ ctr' = Inc(ctr, "ignored")
    /\ mpc' = [mpc EXCEPT ![m] = "toEdge"]
    /\ UNCHANGED <<metrics, config, reader, input, inputClosed, parsers, cnq, cnqClosed, mnq, tries,
                   err, store, leases, coord, sent, blanks, errLog>>

\* atomic.AddUint64(&s.ctr.ignored, 1); continue
HN_Ignore(m) ==
    /\ m \in Mutators
    /\ mpc[m] = "ignore"
    /\ ctr' = Inc(ctr, "ignored")
    /\ mpc' = [mpc EXCEPT ![m] = "recv"]
    /\ mnq' = [mnq EXCEPT ![m] = NoLine]
    /\ UNCHANGED <<metrics, config, reader, input, inputClosed, parsers, cnq, cnqClosed, tries,
                   err, store, leases, coord, sent, blanks, errLog>>

HN_RetryBad(m) ==
    /\ tries' = [tries EXCEPT ![m] = IF mnq[m].fate = "stuck" THEN @ ELSE @ + 1]
    /\ err' = SetError(err, E_TMP_ERROR)
    /\ errLog' = Append(errLog, E_TMP_ERROR)
    /\ UNCHANGED <<mpc, mnq, store, leases>>

\* time.Sleep(time.Microsecond); edge, err = nq.ToEdge()
\* (a triple that fails forever leaves the worker where it is)
HN_Retry(m) ==
    /\ tries' = [tries EXCEPT ![m] = IF mnq[m].fate = "stuck" THEN @ ELSE @ + 1]
    /\ UNCHANGED <<mpc, mnq, err, errLog, store, leases>>

\* s.SetError(err); glog...Error("While converting to edge"); return
HN_EdgeFail(m, e) ==
    /\ err' = SetError(err, e)
    /\ errLog' = Append(errLog, e)
    /\ mpc' = [mpc EXCEPT ![m] = "done"]
    /\ mnq' = [mnq EXCEPT ![m] = NoLine]
    /\ tries' = [tries EXCEPT ![m] = 0]
    /\ UNCHANGED <<store, leases>>

\* key := posting.Key(edge.Entity, edge.Attribute)
\* plist, decr := posting.GetOrCreate(key, dataStore)
\* plist.AddMutationWithIndex(ctx, edge, posting.Set)
HN_Apply(m) ==
    /\ leases' = leases + 1
    /\ store' = store (+) SetToBag({Key(mnq[m])})
    /\ mpc' = [mpc EXCEPT ![m] = "decr"]
    /\ tries' = [tries EXCEPT ![m] = 0]
    /\ UNCHANGED <<mnq, err, errLog>>

\* edge, err := nq.ToEdge(); for err != nil { E_TMP_ERROR: sleep and retry;
\* otherwise SetError and return }; on success the mutation is applied
HN_ToEdge(m) ==
    /\ m \in Mutators
    /\ mpc[m] = "toEdge"
    /\ LET e == ToEdge(mnq[m], tries[m])
       IN  IF e = NoErr THEN HN_Apply(m)
           ELSE IF IsTmpError(e, err) THEN HN_Retry(m)
           ELSE HN_EdgeFail(m, e)
    /\ UNCHANGED <<metrics, config, reader, input, inputClosed, parsers, cnq, cnqClosed,
                   ctr, coord, sent, blanks>>

HN_DecrBad(m) ==
    /\ m \in Mutators
    /\ mpc[m] = "decr"
    /\ mpc' = [mpc EXCEPT ![m] = "inc"]
    /\ mnq' = [mnq EXCEPT ![m] = NoLine]
    /\ UNCHANGED <<metrics, config, reader, input, inputClosed, parsers, cnq, cnqClosed, tries,
                   ctr, err, store, leases, coord, sent, blanks, errLog>>

\* decr()
HN_Decr(m) ==
    /\ m \in Mutators
    /\ mpc[m] = "decr"
    /\ leases' = leases - 1
    /\ mpc' = [mpc EXCEPT ![m] = "inc"]
    /\ mnq' = [mnq EXCEPT ![m] = NoLine]
    /\ UNCHANGED <<metrics, config, reader, input, inputClosed, parsers, cnq, cnqClosed, tries,
                   ctr, err, store, coord, sent, blanks, errLog>>

\* atomic.AddUint64(&s.ctr.processed, 1)
HN_Inc(m) ==
    /\ m \in Mutators
    /\ mpc[m] = "inc"
    /\ ctr' = Inc(ctr, "processed")
    /\ mpc' = [mpc EXCEPT ![m] = "recv"]
    /\ UNCHANGED <<metrics, config, reader, input, inputClosed, parsers, cnq, cnqClosed, mnq, tries,
                   err, store, leases, coord, sent, blanks, errLog>>

handleNQuads(m) ==
    \/ HN_Recv(m) \/ HN_Check(m) \/ HN_Ignore(m) \/ HN_ToEdge(m)
    \/ HN_Decr(m) \/ HN_Inc(m)

\* ------------------------------------------------------------- LoadEdges
ParseStageDoneBad == \E p \in Parsers : ppc[p] = "done"
MutationStageDoneBad == \E m \in Mutators : mpc[m] = "done"

\* pwg.Wait() (every parseStream has run its deferred wg.Done)
ParseStageDone == \A p \in Parsers : ppc[p] = "done"
\* wg.Wait() (every handleNQuads has run its deferred wg.Done)
MutationStageDone == \A m \in Mutators : mpc[m] = "done"

\* pwg.Wait(); close(s.cnq)
LE_CloseCnq ==
    /\ cpc = "waitParse"
    /\ ParseStageDone
    /\ cnqClosed' = TRUE
    /\ cnqCloses' = cnqCloses + 1
    /\ cpc' = "waitMut"
    /\ UNCHANGED <<metrics, config, reader, input, inputClosed, parsers, cnq,
                   mutators, ctr, err, store, leases, ret, sent, blanks, errLog>>

\* wg.Wait(); ticker.Stop(); return atomic.LoadUint64(&s.ctr.processed), s.Error()
LE_Return ==
    /\ cpc = "waitMut"
    /\ MutationStageDone
    /\ ret' = [processed |-> ctr.processed, err |-> err]
    /\ cpc' = "done"
    /\ UNCHANGED <<metrics, config, reader, input, inputClosed, parsers, cnq, cnqClosed,
                   mutators, ctr, err, store, leases, cnqCloses, sent, blanks, errLog>>

LoadEdges == LE_CloseCnq \/ LE_Return

\* ------------------------------------------------------------- specification
Next ==
    \/ RL_Fill \/ RL_Send \/ RL_Store \/ RL_Drain \/ RL_Close
    \/ \E p \in 1..MaxParse :
          PS_Recv(p) \/ PS_Check(p) \/ PS_Fail(p) \/ PS_Send(p) \/ PS_Inc(p)
    \/ \E m \in 1..MaxMut :
          \/ HN_Recv(m) \/ HN_Check(m) \/ HN_Ignore(m) \/ HN_ToEdge(m)
          \/ HN_Decr(m) \/ HN_Inc(m)
    \/ LE_CloseCnq \/ LE_Return

Spec == Init /\ [][Next]_vars

\* The Go scheduler runs every runnable goroutine eventually.
Fairness ==
    /\ WF_vars(readLines)
    /\ \A p \in 1..MaxParse : WF_vars(parseStream(p))
    /\ \A m \in 1..MaxMut : WF_vars(handleNQuads(m))
    /\ WF_vars(LoadEdges)

FairSpec == Spec /\ Fairness

\* The runs over LinesStuck.
SpecStuck == InitStuck /\ [][Next]_vars

\* ------------------------------------------------------------- printCounters
\* A tick arrives (until ticker.Stop() at the return of LoadEdges);
\* processed := load(processed); if prev == processed { continue };
\* prev = processed
MT_Tick ==
    /\ tpc = "tick"
    /\ cpc # "done"
    /\ IF prev = ctr.processed
       THEN UNCHANGED <<tpc, prev>>
       ELSE /\ prev' = ctr.processed
            /\ tpc' = "loadParsed"
    /\ UNCHANGED <<parsedSeen, ignoredSeen, config, reader, input, inputClosed, parsers,
                   cnq, cnqClosed, mutators, ctr, err, store, leases, coord, sent,
                   blanks, errLog>>

\* parsed := atomic.LoadUint64(&s.ctr.parsed)
MT_LoadParsed ==
    /\ tpc = "loadParsed"
    /\ parsedSeen' = ctr.parsed
    /\ tpc' = "loadIgnored"
    /\ UNCHANGED <<prev, ignoredSeen, config, reader, input, inputClosed, parsers,
                   cnq, cnqClosed, mutators, ctr, err, store, leases, coord, sent,
                   blanks, errLog>>

\* ignored := atomic.LoadUint64(&s.ctr.ignored)
MT_LoadIgnored ==
    /\ tpc = "loadIgnored"
    /\ ignoredSeen' = ctr.ignored
    /\ tpc' = "log"
    /\ UNCHANGED <<prev, parsedSeen, config, reader, input, inputClosed, parsers,
                   cnq, cnqClosed, mutators, ctr, err, store, leases, coord, sent,
                   blanks, errLog>>

\* pending := parsed - ignored - processed; glog...Info("Counters"); the
\* iteration's locals go out of scope.
MT_Log ==
    /\ tpc = "log"
    /\ tpc' = "tick"
    /\ parsedSeen' = 0 /\ ignoredSeen' = 0
    /\ UNCHANGED <<prev, config, reader, input, inputClosed, parsers,
                   cnq, cnqClosed, mutators, ctr, err, store, leases, coord, sent,
                   blanks, errLog>>

printCounters == MT_Tick \/ MT_LoadParsed \/ MT_LoadIgnored \/ MT_Log

NextMetrics == Next \/ MT_Tick \/ MT_LoadParsed \/ MT_LoadIgnored \/ MT_Log

\* The runs in which the ticker fires. printCounters only reads the pipeline's
\* state, so the other specifications leave its ticks out.
SpecMetrics == InitMetrics /\ [][NextMetrics]_vars

\* The runs over inputs of up to MaxLinesLong lines.
SpecLong == InitLong /\ [][Next]_vars

Returned == cpc = "done"

\* ------------------------------------------------------------- properties
NqLines(pred_ok) == { i \in DOMAIN stream : stream[i].kind = "nq" /\ pred_ok[stream[i].pred] }
Preds == { l.pred : l \in { x \in Lines \cup LinesStuck : x.kind = "nq" } }
OwnedByThis == [p \in Preds |-> Fingerprint64(p) % numInstances = instanceIdx]
NotOwnedByThis == [p \in Preds |-> Fingerprint64(p) % numInstances # instanceIdx]
BlankLines == { i \in DOMAIN stream : stream[i].kind = "blank" }
BadLines == { i \in DOMAIN stream : stream[i].kind = "bad" }
PermLines == { i \in NqLines(OwnedByThis) : stream[i].fate = "perm" }
StuckLines == { i \in NqLines(OwnedByThis) : stream[i].fate = "stuck" }
NoFailures == BadLines = {} /\ PermLines = {} /\ StuckLines = {}
FirstSetError == IF errLog = <<>> THEN NoErr ELSE errLog[1]

\* C1: if no line fails to parse and no edge construction fails permanently
\* (transient failures are finitely many), then under fair scheduling of the
\* line source, the parse workers, the mutation workers and the coordinator,
\* LoadEdges eventually returns.
C1_Terminates == NoFailures => <>Returned

C1_Witness ==
    /\ Returned /\ NoFailures
    /\ Len(stream) > WindowCap
    /\ ctr.processed >= 2

\* C2: after an error has been recorded, no parse worker stays blocked on an
\* enqueue to a full parsed-triple queue whose consumers have all stopped.
C2_NoSenderStuck ==
    ~ ( /\ err # NoErr
        /\ \A m \in Mutators : mpc[m] = "done"
        /\ Len(cnq) = CnqCap
        /\ \E p \in Parsers : ppc[p] = "send" )

\* C3: a run that returns with no error has parsed = processed + ignored,
\* and no triple is left in the parsed-triple queue.
C3_ParsedAccounted ==
    (Returned /\ ret.err = NoErr) =>
        /\ ctr.parsed = ctr.processed + ctr.ignored
        /\ cnq = <<>>

C3_Witness ==
    /\ Returned /\ ret.err = NoErr
    /\ ctr.processed >= 1 /\ ctr.ignored >= 1
    /\ ctr.parsed = 3

\* C4: in every reachable state parsed >= processed + ignored.
C4_ParsedCoversTerminal == ctr.parsed >= ctr.processed + ctr.ignored

\* C5 (as claimed): when LoadEdges returns, read = parsed + blank lines
\* skipped, for all inputs.
C5_ReadAccountedAlways == Returned => ctr.read = ctr.parsed + blanks

\* C5 (amended): when LoadEdges returns no error, read = parsed + blank
\* lines skipped, and read is the number of lines of the input.
C5_ReadAccounted ==
    (Returned /\ ret.err = NoErr) =>
        /\ ctr.read = ctr.parsed + blanks
        /\ ctr.read = Len(stream)
        /\ blanks = Cardinality(BlankLines)

C5_Witness ==
    /\ Returned /\ ret.err = NoErr
    /\ blanks >= 1 /\ ctr.parsed >= 1
    /\ Len(stream) > WindowCap

\* C6: the error register always holds the argument of the first SetError
\* call (nil while there was none), so it is never overwritten or emptied,
\* and LoadEdges returns that value.
C6_FirstErrorWins ==
    /\ err = FirstSetError
    /\ Returned => ret.err = FirstSetError

C6_Witness ==
    /\ Returned
    /\ Len(errLog) >= 2
    /\ errLog[1] # errLog[2]

\* C7: for every predicate and every number of instances exactly one
\* instance index satisfies the modulo rule, and an error-free run counts as
\* processed exactly the triples whose predicate hashes to its own index and
\* as ignored exactly the others.
C7_OneOwner ==
    /\ \A p \in Preds : \A n \in 1..MaxInstances :
          Cardinality({ i \in 0..(n - 1) : Owns(p, n, i) }) = 1
    /\ (Returned /\ ret.err = NoErr) =>
          /\ ret.processed = Cardinality(NqLines(OwnedByThis))
          /\ ctr.ignored = Cardinality(NqLines(NotOwnedByThis))

C7_Witness ==
    /\ Returned /\ ret.err = NoErr
    /\ numInstances = 2
    /\ ret.processed >= 1 /\ ctr.ignored >= 1

\* C8: when readLines closes the raw-line queue, the multiset of lines it
\* has sent equals the multiset of lines of the stream.
C8_SentIsStream == inputClosed => sent = BagOfSeq(stream)

C8_Witness ==
    /\ inputClosed
    /\ Len(stream) > WindowCap
    /\ stream[1] # stream[3]
    /\ buf[WindowCap] # stream[WindowCap]

\* C9: the parsed-triple queue is closed only after every parse worker has
\* exited, it is closed at most once, and LoadEdges returns only after the
\* queue was closed and every mutation worker has exited.
C9_ShutdownOrder ==
    /\ cnqClosed => \A p \in Parsers : ppc[p] = "done"
    /\ cnqCloses = (IF cnqClosed THEN 1 ELSE 0)
    /\ Returned => (cnqClosed /\ \A m \in Mutators : mpc[m] = "done")

C9_Witness ==
    /\ Returned
    /\ numr = 2
    /\ ctr.parsed >= 2

\* C10: once LoadEdges has returned, the returned processed count equals the
\* number of mutations applied to the store and the processed counter, with
\* and without an error, and stays so.
C10_ProcessedFinal ==
    Returned =>
        /\ ret.processed = BagCardinality(store)
        /\ ret.processed = ctr.processed
        /\ leases = 0

C10_Witness ==
    /\ Returned
    /\ ret.err # NoErr
    /\ ret.processed >= 1
    /\ rpc # "done"

\* the posting-list keys of the triples of the stream that this instance owns
OwnedKeyBag ==
    LET own == NqLines(OwnedByThis)
        keyAt(i) == <<stream[i].subj, stream[i].pred>>
    IN  [k \in { keyAt(i) : i \in own } |-> Cardinality({ i \in own : keyAt(i) = k })]

\* C11: a triple whose edge construction fails transiently k times and then
\* succeeds is retried k times, and its mutation is applied by the call that
\* follows the k-th failure, once; when nothing fails for good the run
\* returns no error with processed and the store holding every owned triple
\* exactly once.
C11_RetryConverges ==
    /\ [](/\ \A m \in Mutators : mpc[m] = "toEdge" => tries[m] <= mnq[m].tmp
          /\ (Returned /\ NoFailures) =>
                /\ ret.err = NoErr
                /\ ret.processed = Cardinality(NqLines(OwnedByThis))
                /\ store = OwnedKeyBag)
    /\ [][\A m \in Mutators :
            /\ (mpc[m] = "toEdge" /\ mpc'[m] = "decr") =>
                  /\ tries[m] = mnq[m].tmp
                  /\ BagCardinality(store') = BagCardinality(store) + 1
                  /\ ctr' = ctr
            /\ (mpc[m] = "toEdge" /\ tries'[m] # tries[m] /\ mpc'[m] = "toEdge") =>
                  /\ tries'[m] = tries[m] + 1
                  /\ store' = store /\ err' = err]_vars

C11_Witness ==
    /\ Returned /\ NoFailures
    /\ \E i \in NqLines(OwnedByThis) : stream[i].tmp = MaxTmp
    /\ ret.processed >= 2
    /\ MaxTmp >= 1

\* the mutation workers between posting.GetOrCreate and decr()
LeaseHolders == { m \in Mutators : mpc[m] = "decr" }

\* C12: the outstanding leases are exactly those of the workers that have
\* applied a mutation and not yet called decr(): one per such worker, never
\* more than the number of mutation workers, none held by a worker that is
\* incrementing processed or dequeuing, and none when LoadEdges returns;
\* every applied mutation is counted once its lease is released.
C12_LeaseDiscipline ==
    /\ leases = Cardinality(LeaseHolders)
    /\ leases <= nrt
    /\ BagCardinality(store) =
          ctr.processed + Cardinality({ m \in Mutators : mpc[m] \in {"decr", "inc"} })
    /\ Returned => leases = 0

C12_Witness ==
    /\ leases = 2
    /\ Cardinality(LeaseHolders) = 2
    /\ ctr.processed >= 1

\* C13: when the input holds a line that fails to parse, a run that returns
\* returns an error, and the processed count it returns counts applied
\* mutations only.
C13_BadLineIsReported ==
    (Returned /\ BadLines # {}) =>
        /\ ret.err # NoErr
        /\ ret.processed = BagCardinality(store)
        /\ ret.processed <= Cardinality(NqLines(OwnedByThis))

C13_Witness ==
    /\ Returned
    /\ Len(stream) = MaxLines
    /\ stream[Len(stream)].kind = "bad"
    /\ ret.processed >= 1

AllNqLines == { i \in DOMAIN stream : stream[i].kind = "nq" }
ParseErrors == { i \in DOMAIN errLog : errLog[i] = ErrParse }

\* C14: a blank line is read but is never parsed, never enqueued on the
\* parsed-triple queue and never reported as an error; when nothing fails
\* the run returns no error, read counts every line and parsed counts the
\* lines that are not blank.
C14_BlankLinesSkipped ==
    /\ ctr.parsed <= Cardinality(AllNqLines)
    /\ blanks <= Cardinality(BlankLines)
    /\ \A i \in DOMAIN cnq : \E j \in AllNqLines : cnq[i] = Parse(stream[j])
    /\ Cardinality(ParseErrors) <= Cardinality(BadLines)
    /\ (Returned /\ NoFailures) =>
          /\ ret.err = NoErr
          /\ ctr.read = Len(stream)
          /\ blanks = Cardinality(BlankLines)
          /\ ctr.parsed = Len(stream) - Cardinality(BlankLines)

C14_Witness ==
    /\ Returned /\ NoFailures
    /\ Len(stream) = 3
    /\ stream[2].kind = "blank"
    /\ ctr.parsed = 2 /\ ctr.read = 3

\* C15: after a parse error has been recorded the parsed-triple queue keeps
\* being drained, so it is empty when LoadEdges returns.
C15_QueueDrainedAtReturn ==
    (Returned /\ ParseErrors # {}) => cnq = <<>>

AllKeyBag ==
    LET keyAt(i) == <<stream[i].subj, stream[i].pred>>
    IN  [k \in { keyAt(i) : i \in AllNqLines } |->
            Cardinality({ i \in AllNqLines : keyAt(i) = k })]

\* C16: with a single instance nothing is ever ignored, and an error-free run
\* returns processed equal to the number of non-blank lines, each applied to
\* the posting list keyed by its (entity, attribute).
C16_SingleInstance ==
    numInstances = 1 =>
        /\ instanceIdx = 0
        /\ ctr.ignored = 0
        /\ \A m \in Mutators : mpc[m] # "ignore"
        /\ (Returned /\ ret.err = NoErr) =>
              /\ ret.processed = Len(stream) - Cardinality(BlankLines)
              /\ store = AllKeyBag

C16_Witness ==
    /\ numInstances = 1
    /\ Returned /\ ret.err = NoErr
    /\ ret.processed = 3
    /\ Cardinality(BagToSet(store)) >= 2

ParseInFlight == { p \in Parsers : ppc[p] \in {"send", "inc"} }
MutInFlight == { m \in Mutators : mpc[m] \in {"ignore", "toEdge", "decr", "inc"} }

\* C17: a worker that holds a dequeued item at its register check while the
\* register is set exits without touching the queues, the counters, the store
\* or the register; once the register is set, parsed plus the parse workers
\* past their check never grows, and processed + ignored plus the mutation
\* workers past their check never grows, so parsed grows by at most the number
\* of parse workers and processed + ignored by at most the number of mutation
\* workers.
C17_CooperativeStop ==
    /\ [](/\ Cardinality(ParseInFlight) <= numr
          /\ Cardinality(MutInFlight) <= nrt)
    /\ [][/\ \A p \in Parsers :
               (err # NoErr /\ ppc[p] = "check" /\ ppc'[p] # "check") =>
                   /\ ppc'[p] = "done"
                   /\ cnq' = cnq /\ ctr' = ctr /\ store' = store
                   /\ err' = err /\ errLog' = errLog
          /\ \A m \in Mutators :
               (err # NoErr /\ mpc[m] = "check" /\ mpc'[m] # "check") =>
                   /\ mpc'[m] = "done"
                   /\ cnq' = cnq /\ ctr' = ctr /\ store' = store
                   /\ err' = err /\ errLog' = errLog /\ leases' = leases
          /\ err # NoErr =>
               /\ ctr'.parsed + Cardinality(ParseInFlight')
                     <= ctr.parsed + Cardinality(ParseInFlight)
               /\ ctr'.processed + ctr'.ignored + Cardinality(MutInFlight')
                     <= ctr.processed + ctr.ignored + Cardinality(MutInFlight)]_vars

C17_Witness ==
    /\ err # NoErr
    /\ \E p \in Parsers : ppc[p] = "check"
    /\ \E m \in Mutators : mpc[m] \in {"decr", "inc"}

\* C18: the Line Source never stays blocked on a full raw-line queue, also
\* when the register is set and every parse worker has stopped.
C18_LineSourceNeverStuck ==
    ~ ( /\ \A p \in Parsers : ppc[p] = "done"
        /\ Len(input) = InputCap
        /\ \/ rpc = "send"
           \/ rpc = "drain" /\ ri <= Len(buf) )

StuckWorkers == { m \in Mutators : mpc[m] = "toEdge" /\ mnq[m].fate = "stuck" }

\* C19: a mutation worker whose triple keeps failing transiently never leaves
\* its retry loop, whatever the register holds, and LoadEdges does not return
\* while such a worker exists.
C19_RetryForever ==
    /\ [](StuckWorkers # {} => ~Returned)
    /\ [][\A m \in Mutators :
            (mpc[m] = "toEdge" /\ mnq[m].fate = "stuck") =>
                /\ mpc'[m] = "toEdge" /\ mnq'[m] = mnq[m]
                /\ cpc' # "done"]_vars

C19_Witness ==
    /\ StuckWorkers # {}
    /\ err # NoErr
    /\ cpc = "waitMut"
    /\ \A m \in Mutators \ StuckWorkers : mpc[m] = "done"

EdgeErrors == { i \in DOMAIN errLog : errLog[i] = ErrEdge }

\* C20: a transient edge-construction failure is never written to the register
\* and is never returned; a mutation worker calls SetError only for a permanent
\* failure, and in doing so it applies no mutation and exits without changing
\* processed or ignored.
C20_TransientNeverSurfaces ==
    /\ [](/\ err # E_TMP_ERROR
          /\ ret.err # E_TMP_ERROR
          /\ \A i \in DOMAIN errLog : errLog[i] \in {ErrParse, ErrEdge}
          /\ Cardinality(EdgeErrors) <= Cardinality(PermLines))
    /\ [][\A m \in Mutators :
            (mpc[m] = "toEdge" /\ (mpc'[m] # mpc[m] \/ tries'[m] # tries[m])) =>
                IF errLog' # errLog \/ err' # err
                THEN /\ mnq[m].fate = "perm" /\ tries[m] >= mnq[m].tmp
                     /\ errLog' = Append(errLog, ErrEdge)
                     /\ err' = IF err = NoErr THEN ErrEdge ELSE err
                     /\ mpc'[m] = "done"
                     /\ store' = store /\ ctr' = ctr /\ leases' = leases
                ELSE mnq[m].fate # "perm" \/ tries[m] < mnq[m].tmp]_vars

C20_Witness ==
    /\ Returned
    /\ Len(stream) = 2
    /\ stream[1].kind = "nq" /\ stream[2].kind = "nq"
    /\ stream[1].tmp = MaxTmp /\ stream[2].fate = "perm"
    /\ MaxTmp >= 1
    /\ ret.processed = 1
    /\ ret.err = ErrEdge

\* Lines read from the stream and not yet dequeued by a parse worker.
LinesHeld == (pos - 1) - (BagCardinality(sent) - Len(input))

AboutToDraw ==
    /\ pos <= Len(stream)
    /\ \/ rpc = "store"
       \/ rpc = "fill" /\ Len(buf) >= WindowCap

\* C23: nothing is sent on a closed queue and no queue is closed twice: the
\* raw-line queue is sent to and closed by the Line Source only, the close
\* coming after its last send; the parsed-triple queue is closed by the
\* coordinator, once, when every parse worker has exited; the window index
\* is drawn only from a non-empty window.
C23_ChannelDiscipline ==
    /\ [](/\ inputClosed => (rpc = "done" /\ ri > Len(buf))
          /\ cnqCloses <= 1
          /\ cnqClosed <=> cnqCloses = 1
          /\ cnqClosed => \A p \in Parsers : ppc[p] = "done"
          /\ AboutToDraw => Len(buf) > 0
          /\ rpc \in {"send", "store"} => rk \in 1..Len(buf))
    /\ [][/\ Len(input') > Len(input) =>
               /\ ~inputClosed /\ ~inputClosed'
               /\ rpc \in {"send", "drain"}
               /\ ppc' = ppc /\ mpc' = mpc /\ cpc' = cpc
          /\ Len(cnq') > Len(cnq) => (~cnqClosed /\ ~cnqClosed')
          /\ inputClosed' # inputClosed =>
               /\ ~inputClosed
               /\ rpc = "drain" /\ rpc' = "done"
               /\ input' = input
          /\ cnqClosed' # cnqClosed =>
               /\ ~cnqClosed /\ cnqCloses = 0
               /\ cpc = "waitParse" /\ cpc' = "waitMut"
               /\ \A p \in Parsers : ppc[p] = "done"]_vars

C23_Witness ==
    /\ inputClosed /\ cnqClosed
    /\ Len(stream) > WindowCap
    /\ BagCardinality(sent) = Len(stream)
    /\ ctr.parsed >= 2
    /\ Returned

\* C24: the lines sent onto the raw-line queue never outnumber read, read
\* never decreases, and when the raw-line queue is closed read equals the
\* number of lines of the input and the number of lines sent.
C24_ReadCountsLines ==
    /\ [](/\ BagCardinality(sent) <= ctr.read
          /\ ctr.read <= Len(stream)
          /\ inputClosed =>
                /\ ctr.read = Len(stream)
                /\ ctr.read = BagCardinality(sent))
    /\ [][/\ ctr'.read >= ctr.read
          /\ (~inputClosed /\ inputClosed') =>
                /\ ctr'.read = Len(stream)
                /\ ctr'.read = BagCardinality(sent')]_vars

C24_Witness ==
    /\ inputClosed
    /\ Len(stream) = MaxLines /\ MaxLines > WindowCap
    /\ ctr.read = MaxLines
    /\ BagCardinality(sent) = MaxLines

\* C21: every pending value the metrics loop computes is the non-negative
\* difference of the three counter values it loaded: the subtraction never
\* wraps around.
C21_PendingNeverWraps ==
    tpc = "log" =>
        Pending(parsedSeen, ignoredSeen, prev) = parsedSeen - ignoredSeen - prev

====
